---- MODULE Spec2Model ----
(***************************************************************************)
(* hana23::move_only_function: a move-only, type-erased callable wrapper.  *)
(* A box is a descriptor pointer (vtable) and one pointer-sized storage    *)
(* slot.  The descriptor of a callable type is short_implementation (the   *)
(* callable lives in the slot) or allocating_implementation (the slot      *)
(* holds a pointer to a heap allocation).                                  *)
(***************************************************************************)
EXTENDS Integers, Sequences, FiniteSets, TLC

\* ---- bounds of the model
NBoxes == 2
MaxAllocs == 2
MaxCount == 3

\* ---- program constants
\* sizeof(void *), counted in machine pointers
BufferSize == 1
nullptr == 0
\* the local `tmp` of swap
TMP == 0

NULL == "null"
Boxes == 1..NBoxes
AllBoxes == {TMP} \cup Boxes
Addrs == 1..MaxAllocs

\* ---- callable types handed to the box by user code
\*  lambda      [i = 0ull]() mutable { return ++i; }        (one pointer wide)
\*  throwing    the same counter as a one-pointer functor whose move
\*              constructor is not noexcept
\*  fn_ptr      int (*)()
\*  pmf         int (foo::*)(), two pointers wide
\*  nested      move_only_function of another signature variant, of which
\*              the call operator is declared const noexcept
Types == {"lambda", "throwing", "fn_ptr", "pmf", "nested"}
Counters == {"lambda", "throwing"}

\* callable types with one call operator per access path
\*  overloads      struct { int operator()() &; int operator()() const &;
\*                          int operator()() &&; int operator()() const &&; }
\*  big_overloads  the same with a member two pointers wide
OverloadTypes == {"overloads", "big_overloads"}

SizeOf(t) == IF t \in {"pmf", "nested", "big_overloads"} THEN 2 ELSE 1
NothrowMove(t) == t # "throwing"

\* an inner box of another variant, as far as the outer box looks at it:
\* empty, or bound inline to a function pointer
EmptyInner == [vtable |-> NULL, v |-> 0]
BoundInner == [vtable |-> "fn_ptr", v |-> 1]
NoVal == [v |-> 0, inner |-> EmptyInner]

\* the values F && f that the constructors and operator=(F &&) receive
Args ==
    {[t |-> t, val |-> [v |-> 0, inner |-> EmptyInner]] : t \in Types \ {"nested"}}
    \cup {[t |-> t, val |-> [v |-> 1, inner |-> EmptyInner]] : t \in {"fn_ptr", "pmf"}}
    \cup {[t |-> "nested", val |-> [v |-> 0, inner |-> i]] : i \in {EmptyInner, BoundInner}}

\* ---- compile-time predicates
sbo_compatibleStrict(t) == SizeOf(t) < BufferSize /\ NothrowMove(t)
sbo_compatible(t) == SizeOf(t) <= BufferSize /\ NothrowMove(t)

vtable_for(t) == IF sbo_compatible(t) THEN "short" ELSE "allocating"

\* ---- the signature variants of the box that differ in what may throw
Sigs == {"R(Args...)", "R(Args...) noexcept"}
Noexcept(sg) == sg = "R(Args...) noexcept"
\* std::is_nothrow_invocable_r: of the callable types above only the nested
\* box has a call operator declared noexcept
NothrowInvocable(t) == t = "nested"
\* the cv- and ref-qualified variants
QualifiedSigs == {"R(Args...) const", "R(Args...) &&", "R(Args...) const &&"}
Const(sg) == sg \in {"R(Args...) const", "R(Args...) const &&"}
\* std::is_invocable_r of a const VT: the counting closures are mutable
ConstInvocable(t) == t \notin Counters
\* _is_invocable<Signature>::from_v<VT>, the requires clause of the constructors
is_callable_from(sg, t) ==
    /\ Noexcept(sg) => NothrowInvocable(t)
    /\ Const(sg) => ConstInvocable(t)
\* the value categories of VT that from_v tests for the variant
TestedPaths(sg) ==
    CASE sg = "R(Args...) const" -> {"const rvalue", "const lvalue"}
      [] sg = "R(Args...) &&" -> {"rvalue"}
      [] sg = "R(Args...) const &&" -> {"const rvalue"}
      [] OTHER -> {"rvalue", "lvalue"}
\* the expression the descriptor's call hands to std::invoke:
\* static_cast<Callable &> or static_cast<const Callable &>
CallPath(sg) == IF Const(sg) THEN "const lvalue" ELSE "lvalue"

is_comparable_with_nullptrFnOnly(t) == t = "fn_ptr"
is_comparable_with_nullptr(t) == t \in {"fn_ptr", "pmf", "nested"}

\* ---- observers of a box
operator_bool(bx) == bx.vtable # NULL
operator_eq_nullptr(bx) == operator_bool(bx)

\* f == nullptr for a constructor argument
EqualsNullptr(f) ==
    CASE f.t = "nested" -> operator_eq_nullptr(f.val.inner)
      [] f.t \in {"fn_ptr", "pmf"} -> f.val.v = nullptr
      [] OTHER -> FALSE

\* ---- storage contents
Raw == [k |-> "raw", p |-> nullptr, val |-> NoVal]
ObjS(val) == [k |-> "obj", p |-> nullptr, val |-> val]
PtrS(p) == [k |-> "ptr", p |-> p, val |-> NoVal]

DeadBox == [live |-> FALSE, vtable |-> NULL, storage |-> Raw]
EmptyBox == [live |-> TRUE, vtable |-> NULL, storage |-> Raw]
FreeCell == [st |-> "free", t |-> NULL, val |-> NoVal]
DeletedCell == [st |-> "deleted", t |-> NULL, val |-> NoVal]

\* ---- the callable types' own operations
\* Callable(std::forward<F>(f)): the new instance; a nested box is move
\* constructed (lines 122-126 of its own variant), inline payload only
ConstructFrom(t, val) ==
    IF t = "nested"
    THEN [v |-> 0, inner |-> IF val.inner.vtable # NULL THEN val.inner ELSE EmptyInner]
    ELSE val

\* Callable(std::move(src)): the new instance and what is left in the source
MovedTo(t, val) == val
MovedFrom(t, val) == val

\* std::invoke on the stored instance: result and the instance afterwards
\* the function a non-null int (*)() points at may throw instead of returning
Throws(t, val) == t = "fn_ptr" /\ val.v # nullptr
CallDefined(t, val) ==
    CASE t \in {"fn_ptr", "pmf"} -> val.v # nullptr
      [] t = "nested" -> val.inner.vtable # NULL /\ val.inner.v # nullptr
      [] OTHER -> TRUE
Invoke(t, val) ==
    CASE t \in Counters -> [ret |-> val.v + 1, val |-> [val EXCEPT !.v = val.v + 1]]
      [] t = "fn_ptr" -> [ret |-> 41, val |-> val]
      [] t = "pmf" -> [ret |-> 2, val |-> val]
      [] OTHER -> [ret |-> 41, val |-> val]

\* the overload that std::invoke selects for an access path
OverloadResult(path) ==
    CASE path = "lvalue" -> 1
      [] path = "const lvalue" -> 2
      [] path = "rvalue" -> 3
      [] OTHER -> 4
InvokeVia(path, t, val) ==
    IF t \in OverloadTypes THEN [ret |-> OverloadResult(path), val |-> val]
    ELSE Invoke(t, val)

\* ---- the machine: boxes, heap, detected faults, events of the running operation
Mk(bx, hp, fl, ev) == [box |-> bx, heap |-> hp, faults |-> fl, ev |-> ev]
Emit(m, es) == [m EXCEPT !.ev = m.ev \o es]
Fault(m, cond, name) == IF cond THEN [m EXCEPT !.faults = m.faults \cup {name}] ELSE m
SetStorage(m, b, s) == [m EXCEPT !.box[b].storage = s]
SetVtable(m, b, vt) == [m EXCEPT !.box[b].vtable = vt]

CanAlloc(hp) == \E a \in Addrs : hp[a].st = "free"
NewAddrFirst(hp) == CHOOSE a \in Addrs : \A a2 \in Addrs : a <= a2
NewAddr(hp) == CHOOSE a \in Addrs : hp[a].st = "free" /\ \A a2 \in Addrs : a2 < a => hp[a2].st # "free"

\* delete p
DeleteNoNullCheck(m, p) ==
    IF p # nullptr /\ m.heap[p].st = "live"
    THEN Emit([m EXCEPT !.heap[p] = DeletedCell], <<"dtor", "delete">>)
    ELSE Fault(m, TRUE, "double_delete")
Delete(m, p) ==
    IF p = nullptr THEN m
    ELSE IF m.heap[p].st = "live"
         THEN Emit([m EXCEPT !.heap[p] = DeletedCell], <<"dtor", "delete">>)
         ELSE Fault(m, TRUE, "double_delete")

\* ---- short_implementation<Callable>
short_get_pointer(m, b) == m.box[b].storage.val

short_create_object_with(m, t, b, val) ==
    Emit(SetStorage(m, b, ObjS(ConstructFrom(t, val))), <<"ctor">>)

short_callCopy(m, t, b) ==
    [m |-> Emit(m, <<"call">>), ret |-> Invoke(t, short_get_pointer(m, b)).ret]
short_call(m, t, b) ==
    LET bad == m.box[b].storage.k # "obj"
        r == Invoke(t, short_get_pointer(m, b))
    IN [m |-> Emit(SetStorage(Fault(m, bad, "bad_object"), b, ObjS(r.val)), <<"call">>),
        ret |-> r.ret]

short_move_constructDestroying(m, t, dst, src) ==
    LET val == short_get_pointer(m, src)
        m1 == SetStorage(m, dst, ObjS(MovedTo(t, val)))
    IN Emit(SetStorage(m1, src, Raw), <<"relocate", "ctor", "dtor">>)
short_move_constructReset(m, t, dst, src) ==
    LET val == short_get_pointer(m, src)
        m1 == SetStorage(m, dst, ObjS(NoVal))
    IN Emit(m1, <<"relocate", "ctor">>)
short_move_construct(m, t, dst, src) ==
    LET bad == m.box[src].storage.k # "obj"
        val == short_get_pointer(m, src)
        m1 == SetStorage(Fault(m, bad, "bad_object"), dst, ObjS(MovedTo(t, val)))
        m2 == SetStorage(m1, src, ObjS(MovedFrom(t, val)))
    IN Emit(m2, <<"relocate", "ctor">>)

short_destroy(m, t, b) ==
    LET bad == m.box[b].storage.k # "obj"
    IN Emit(SetStorage(Fault(m, bad, "bad_object"), b, Raw), <<"destroy", "dtor">>)

\* ---- allocating_implementation<Callable>
allocating_get_pointer(m, b) == m.box[b].storage.p

allocating_create_object_withDefault(m, t, b, val) ==
    LET a == NewAddr(m.heap)
        m1 == [m EXCEPT !.heap[a] = [st |-> "live", t |-> t, val |-> NoVal]]
    IN Emit(SetStorage(m1, b, PtrS(a)), <<"new", "ctor">>)
allocating_create_object_with(m, t, b, val) ==
    LET a == NewAddr(m.heap)
        m1 == [m EXCEPT !.heap[a] = [st |-> "live", t |-> t, val |-> ConstructFrom(t, val)]]
    IN Emit(SetStorage(m1, b, PtrS(a)), <<"new", "ctor">>)

allocating_call(m, t, b) ==
    LET p == allocating_get_pointer(m, b)
        gone == p = nullptr \/ m.heap[p].st # "live"
        r == Invoke(t, IF gone THEN NoVal ELSE m.heap[p].val)
        m1 == IF gone THEN Fault(m, TRUE, "use_after_free")
              ELSE [m EXCEPT !.heap[p].val = r.val]
    IN [m |-> Emit(m1, <<"call">>), ret |-> r.ret]

allocating_move_constructKeep(m, t, dst, src) ==
    Emit(SetStorage(m, dst, PtrS(allocating_get_pointer(m, src))), <<"relocate">>)
allocating_move_construct(m, t, dst, src) ==
    LET m1 == SetStorage(m, dst, PtrS(allocating_get_pointer(m, src)))
        m2 == SetStorage(m1, src, PtrS(nullptr))
    IN Emit(m2, <<"relocate">>)

allocating_destroyLeak(m, t, b) ==
    Emit(SetStorage(m, b, Raw), <<"destroy">>)
allocating_destroy(m, t, b) ==
    LET bad == m.box[b].storage.k # "ptr"
        m1 == Delete(Emit(Fault(m, bad, "bad_object"), <<"destroy">>), allocating_get_pointer(m, b))
    IN SetStorage(m1, b, Raw)

\* ---- dispatch through the descriptor (vtable_t)
create_object_with(m, t, b, val) ==
    IF vtable_for(t) = "short" THEN short_create_object_with(m, t, b, val)
    ELSE allocating_create_object_with(m, t, b, val)
vtable_call(m, t, b) ==
    IF vtable_for(t) = "short" THEN short_call(m, t, b) ELSE allocating_call(m, t, b)
vtable_move_construct(m, t, dst, src) ==
    IF vtable_for(t) = "short" THEN short_move_construct(m, t, dst, src)
    ELSE allocating_move_construct(m, t, dst, src)
vtable_destroy(m, t, b) ==
    IF vtable_for(t) = "short" THEN short_destroy(m, t, b) ELSE allocating_destroy(m, t, b)

\* ---- move_only_function<R(Args...)>
SetBox(m, b, bx) == [m EXCEPT !.box[b] = bx]

releaseKeep(m, b) ==
    LET vt == m.box[b].vtable
    IN IF vt # NULL THEN vtable_destroy(m, vt, b) ELSE m
release(m, b) ==
    LET vt == m.box[b].vtable
    IN IF vt # NULL THEN SetVtable(vtable_destroy(m, vt, b), b, NULL) ELSE m

\* move_only_function() and move_only_function(std::nullptr_t)
default_ctor(m, b) == SetBox(m, b, EmptyBox)

\* move_only_function(move_only_function && other)
move_ctor(m, b, other) ==
    LET vt == m.box[other].vtable
        m0 == SetBox(m, b, [live |-> TRUE, vtable |-> vt, storage |-> Raw])
    IN IF vt # NULL THEN vtable_move_construct(m0, vt, b, other) ELSE m0

\* template <typename F> move_only_function(F && f)
ctor_from(m, b, f) ==
    IF is_comparable_with_nullptr(f.t) /\ EqualsNullptr(f)
    THEN SetBox(m, b, EmptyBox)
    ELSE create_object_with(SetBox(m, b, [EmptyBox EXCEPT !.vtable = f.t]), f.t, b, f.val)

\* move_only_function(std::in_place_type_t<T>, CArgs &&... args)
in_place_ctorNullChecked(m, b, f) == ctor_from(m, b, f)
in_place_ctorViaTemporary(m, b, f) ==
    Emit(create_object_with(SetBox(m, b, [EmptyBox EXCEPT !.vtable = f.t]), f.t, b, f.val),
         <<"ctor", "dtor">>)
in_place_ctor(m, b, f) ==
    create_object_with(SetBox(m, b, [EmptyBox EXCEPT !.vtable = f.t]), f.t, b, f.val)

\* operator=(move_only_function && rhs)
move_assignNoRelease(m, b, rhs) ==
    LET vt == m.box[rhs].vtable
    IN IF vt # NULL THEN SetVtable(vtable_move_construct(m, vt, b, rhs), b, vt) ELSE m
move_assign(m, b, rhs) ==
    LET m1 == release(m, b)
        vt == m1.box[rhs].vtable
    IN IF vt # NULL THEN SetVtable(vtable_move_construct(m1, vt, b, rhs), b, vt) ELSE m1

\* operator=(std::nullptr_t)
null_assign(m, b) == release(m, b)

\* template <class F> operator=(F && f)
assign_fromNoRelease(m, b, f) ==
    create_object_with(SetVtable(m, b, f.t), f.t, b, f.val)
assign_from(m, b, f) ==
    create_object_with(SetVtable(release(m, b), b, f.t), f.t, b, f.val)

\* the same when create_object_with throws (operator new, or the constructor
\* of Callable): the exception leaves operator= after release() and the
\* assignment to vtable, and nothing was constructed in the storage
assign_from_throws(m, b, f) ==
    Emit(SetVtable(release(m, b), b, f.t), <<"throw">>)

\* ~move_only_function()
dtorAlways(m, b) ==
    SetBox(vtable_destroy(m, IF m.box[b].vtable = NULL THEN "lambda" ELSE m.box[b].vtable, b),
           b, DeadBox)
dtor(m, b) ==
    LET vt == m.box[b].vtable
    IN SetBox(IF vt # NULL THEN vtable_destroy(m, vt, b) ELSE m, b, DeadBox)

\* void swap(move_only_function & other): tmp is a local, destroyed on return
\* the three moves of swap, up to the end of the scope of tmp
swap_movesNoBack(m, this, other) ==
    move_assign(move_ctor(m, TMP, this), this, other)
swap_moves(m, this, other) ==
    LET m1 == move_ctor(m, TMP, this)
        m2 == move_assign(m1, this, other)
    IN move_assign(m2, other, TMP)
swap(m, this, other) == dtor(swap_moves(m, this, other), TMP)

\* R operator()(Args... args)
call_operator(m, b) == vtable_call(m, m.box[b].vtable, b)
\* the same when std::invoke throws: nothing catches the exception, so it
\* leaves operator() unless the descriptor's call is declared noexcept(true),
\* where the program is terminated
call_operator_throws(m, sg, b) ==
    IF Noexcept(sg) THEN Fault(Emit(m, <<"call">>), TRUE, "terminate")
    ELSE Emit(m, <<"call", "throw">>)

\* what the call operator asserts, and what std::invoke needs of the callable
CanCall(bx, hp) ==
    /\ bx.vtable # NULL
    /\ IF vtable_for(bx.vtable) = "short"
       THEN bx.storage.k = "obj" /\ CallDefined(bx.vtable, bx.storage.val)
       ELSE /\ bx.storage.k = "ptr" /\ bx.storage.p # nullptr
            /\ hp[bx.storage.p].st = "live"
            /\ CallDefined(bx.vtable, hp[bx.storage.p].val)
Payload(bx, hp) ==
    IF vtable_for(bx.vtable) = "short" THEN bx.storage.val ELSE hp[bx.storage.p].val
\* the result the next invocation of the box returns; -1 when it has none
CallResult(bx, hp) ==
    IF CanCall(bx, hp) THEN Invoke(bx.vtable, Payload(bx, hp)).ret ELSE -1

\* ---- state
\* box, heap, faults: the program's objects; sig: the signature variant that
\* the program's boxes are declared with; pc: where each thread of a program
\* that moves from one box in several threads is in its move constructor
VARIABLES box, heap, faults, sig, pc
vars == <<box, heap, faults, sig, pc>>

Cur == Mk(box, heap, faults, <<>>)

Done(m) ==
    /\ box' = m.box
    /\ heap' = m.heap
    /\ faults' = m.faults
    /\ sig' = sig
    /\ pc' = pc

\* a new box object takes the lowest slot that holds no live box
IsNew(b) == ~box[b].live /\ \A b2 \in Boxes : b2 < b => box[b2].live

Allocates(f) == vtable_for(f.t) = "allocating"
\* the constructor from f reaches create_object_with
Binds(f) == ~(is_comparable_with_nullptr(f.t) /\ EqualsNullptr(f))

NoBoxes ==
    /\ box = [b \in AllBoxes |-> DeadBox]
    /\ heap = [a \in Addrs |-> FreeCell]
    /\ faults = {}
    /\ pc = [t \in Boxes |-> "idle"]
Init == NoBoxes /\ sig = "R(Args...)"
InitVariants == NoBoxes /\ sig \in Sigs

\* ---- when each operation can be taken (operator new finds memory; the
\* call operator's documented preconditions hold)
CanConstruct(b, f) ==
    /\ IsNew(b) /\ is_callable_from(sig, f.t)
    /\ (Allocates(f) /\ Binds(f)) => CanAlloc(heap)
CanInPlaceConstruct(b, f) ==
    /\ IsNew(b) /\ is_callable_from(sig, f.t)
    /\ Allocates(f) => CanAlloc(heap)
CanMoveConstruct(b, a) == IsNew(b) /\ box[a].live
CanMoveAssign(b, a) == box[b].live /\ box[a].live
CanAssign(b, f) == box[b].live /\ (Allocates(f) => CanAlloc(heap))
CanSwap(b, a) == box[b].live /\ box[a].live

DefaultConstruct(b) ==
    /\ IsNew(b)
    /\ Done(default_ctor(Cur, b))

NullConstruct(b) ==
    /\ IsNew(b)
    /\ Done(default_ctor(Cur, b))

Construct(b, f) ==
    /\ CanConstruct(b, f)
    /\ Done(ctor_from(Cur, b, f))

InPlaceConstruct(b, f) ==
    /\ CanInPlaceConstruct(b, f)
    /\ Done(in_place_ctor(Cur, b, f))

MoveConstruct(b, a) ==
    /\ CanMoveConstruct(b, a)
    /\ Done(move_ctor(Cur, b, a))

MoveAssign(b, a) ==
    /\ CanMoveAssign(b, a)
    /\ Done(move_assign(Cur, b, a))

NullAssign(b) ==
    /\ box[b].live
    /\ Done(null_assign(Cur, b))

Assign(b, f) ==
    /\ CanAssign(b, f)
    /\ Done(assign_from(Cur, b, f))

Swap(b, a) ==
    /\ CanSwap(b, a)
    /\ Done(swap(Cur, b, a))

Call(b) ==
    /\ box[b].live
    /\ CanCall(box[b], heap)
    /\ box[b].vtable \in Counters => Payload(box[b], heap).v < MaxCount
    /\ Done(call_operator(Cur, b).m)

Destroy(b) ==
    /\ box[b].live
    /\ Done(dtor(Cur, b))

Next ==
    \/ \E b \in Boxes : DefaultConstruct(b)
    \/ \E b \in Boxes : NullConstruct(b)
    \/ \E b \in Boxes, f \in Args : Construct(b, f)
    \/ \E b \in Boxes, f \in Args : InPlaceConstruct(b, f)
    \/ \E b \in Boxes, a \in Boxes : MoveConstruct(b, a)
    \/ \E b \in Boxes, a \in Boxes : MoveAssign(b, a)
    \/ \E b \in Boxes : NullAssign(b)
    \/ \E b \in Boxes, f \in Args : Assign(b, f)
    \/ \E b \in Boxes, a \in Boxes : Swap(b, a)
    \/ \E b \in Boxes : Call(b)
    \/ \E b \in Boxes : Destroy(b)

Spec == Init /\ [][Next]_vars

\* an invocation in which the stored callable throws
CallThrows(b) ==
    /\ box[b].live
    /\ CanCall(box[b], heap)
    /\ Throws(box[b].vtable, Payload(box[b], heap))
    /\ Done(call_operator_throws(Cur, sig, b))

\* the same operations on boxes of either variant, with callables that throw
NextVariants ==
    \/ Next
    \/ \E b \in Boxes : CallThrows(b)

SpecVariants == InitVariants /\ [][NextVariants]_vars

\* ---- constructions of a payload that fail with an exception
\* operator new can throw for every callable kept on the heap, and so can the
\* move constructor of a callable that is not nothrow move constructible
CanThrowOnCreate(f) == Allocates(f)
\* a constructor that throws: the box never comes to exist
ConstructThrows(b, f) ==
    /\ IsNew(b) /\ is_callable_from(sig, f.t)
    /\ CanThrowOnCreate(f) /\ Binds(f)
    /\ Done(Cur)
AssignThrows(b, f) ==
    /\ box[b].live
    /\ CanThrowOnCreate(f)
    /\ Done(assign_from_throws(Cur, b, f))
NextFailures ==
    \/ Next
    \/ \E b \in Boxes, f \in Args : ConstructThrows(b, f)
    \/ \E b \in Boxes, f \in Args : AssignThrows(b, f)
SpecFailures == Init /\ [][NextFailures]_vars

\* ---- several threads move from one box without synchronization
\* The program constructs the box SHARED with a heap payload and starts one
\* thread per box t of Boxes; thread t runs `move_only_function t{std::move(
\* SHARED)}` and destroys t; after joining the threads SHARED is destroyed.
\* The loads and stores of the move constructor are the steps of a thread.
SHARED == NBoxes + 1
RaceBoxes == AllBoxes \cup {SHARED}

\* the two statements of allocating_implementation's move_construct
allocating_move_construct_copyAtomic(m, dst, src) ==
    SetStorage(SetStorage(m, dst, PtrS(allocating_get_pointer(m, src))), src, PtrS(nullptr))
allocating_move_construct_copy(m, dst, src) ==
    SetStorage(m, dst, PtrS(allocating_get_pointer(m, src)))
allocating_move_construct_null(m, src) ==
    SetStorage(m, src, PtrS(nullptr))

StepTo(m, t, at) ==
    /\ box' = m.box
    /\ heap' = m.heap
    /\ faults' = m.faults
    /\ sig' = sig
    /\ pc' = [pc EXCEPT ![t] = at]

RaceInit ==
    /\ box = [b \in RaceBoxes |-> DeadBox]
    /\ heap = [a \in Addrs |-> FreeCell]
    /\ faults = {}
    /\ pc = [t \in Boxes |-> "idle"]
    /\ sig = "R(Args...)"

RaceStarted == \E a \in Addrs : heap[a].st # "free"
\* the main thread constructs SHARED before it starts the others
RaceConstruct(f) ==
    /\ ~RaceStarted
    /\ Allocates(f) /\ Binds(f) /\ is_callable_from(sig, f.t)
    /\ Done(ctor_from(Cur, SHARED, f))
RaceInPlaceConstruct(f) ==
    /\ ~RaceStarted
    /\ Allocates(f) /\ is_callable_from(sig, f.t)
    /\ Done(in_place_ctor(Cur, SHARED, f))
\* vtable{other.vtable}
RaceLoadVtable(t) ==
    /\ pc[t] = "idle" /\ box[SHARED].live
    /\ LET vt == box[SHARED].vtable
       IN StepTo(SetBox(Cur, t, [live |-> TRUE, vtable |-> vt, storage |-> Raw]),
                 t, IF vt # NULL THEN "vtable" ELSE "done")
\* new (&destination) callable_ptr(get_pointer(source))
RaceCopy(t) ==
    /\ pc[t] = "vtable"
    /\ StepTo(allocating_move_construct_copy(Cur, t, SHARED), t, "copied")
\* get_pointer(source) = nullptr
RaceNull(t) ==
    /\ pc[t] = "copied"
    /\ StepTo(allocating_move_construct_null(Cur, SHARED), t, "done")
\* the thread's box goes out of scope
RaceDestroy(t) ==
    /\ pc[t] = "done" /\ box[t].live
    /\ Done(dtor(Cur, t))
\* the main thread has joined the others
RaceDestroyShared ==
    /\ box[SHARED].live
    /\ \A t \in Boxes : pc[t] = "done" /\ ~box[t].live
    /\ Done(dtor(Cur, SHARED))
RaceNext ==
    \/ \E f \in Args : RaceConstruct(f)
    \/ \E f \in Args : RaceInPlaceConstruct(f)
    \/ \E t \in Boxes : RaceLoadVtable(t)
    \/ \E t \in Boxes : RaceCopy(t)
    \/ \E t \in Boxes : RaceNull(t)
    \/ \E t \in Boxes : RaceDestroy(t)
    \/ RaceDestroyShared
SpecRace == RaceInit /\ [][RaceNext]_vars

\* ---- boxes of the cv- and ref-qualified variants, bound to callables with
\* one call operator per access path
OverloadArgs == {[t |-> t, val |-> NoVal] : t \in OverloadTypes}
QualifiedInit == NoBoxes /\ sig \in QualifiedSigs
QualifiedConstruct(b, f) ==
    /\ CanConstruct(b, f)
    /\ Done(ctor_from(Cur, b, f))
QualifiedInPlaceConstruct(b, f) ==
    /\ CanInPlaceConstruct(b, f)
    /\ Done(in_place_ctor(Cur, b, f))
\* what operator() of the variant returns for the box; -1 when it has no result
QualifiedCallResult(sg, bx, hp) ==
    IF CanCall(bx, hp) THEN InvokeVia(CallPath(sg), bx.vtable, Payload(bx, hp)).ret ELSE -1
QualifiedNext ==
    \/ \E b \in Boxes : DefaultConstruct(b)
    \/ \E b \in Boxes, f \in OverloadArgs : QualifiedConstruct(b, f)
    \/ \E b \in Boxes, f \in OverloadArgs : QualifiedInPlaceConstruct(b, f)
    \/ \E b \in Boxes, a \in Boxes : MoveConstruct(b, a)
    \/ \E b \in Boxes, a \in Boxes : MoveAssign(b, a)
    \/ \E b \in Boxes : NullAssign(b)
    \/ \E b \in Boxes, a \in Boxes : Swap(b, a)
    \/ \E b \in Boxes : Call(b)
    \/ \E b \in Boxes : Destroy(b)
SpecQualified == QualifiedInit /\ [][QualifiedNext]_vars

\* ---- a box next to the boxes the program operates on
\* BYSTANDER is constructed first (inline or on the heap) and is then
\* left alone while the program works on the boxes of Boxes.
BYSTANDER == NBoxes + 1
BystanderArgs == {f \in Args : f.t \in {"lambda", "pmf"} /\ Binds(f)}
IsolationInit ==
    /\ \E f \in BystanderArgs :
          LET m0 == Mk([b \in RaceBoxes |-> DeadBox], [a \in Addrs |-> FreeCell], {}, <<>>)
              m == ctor_from(m0, BYSTANDER, f)
          IN box = m.box /\ heap = m.heap /\ faults = m.faults
    /\ pc = [t \in Boxes |-> "idle"]
    /\ sig = "R(Args...)"
SpecIsolation == IsolationInit /\ [][Next]_vars

\* ---- vocabulary of the properties
\* The operations are functions of the state and their operands, so what an
\* operation does in every step is stated of its result m in every reachable
\* state in which it can be taken.
MoveOutcomes(b, a) ==
    (IF CanMoveConstruct(b, a) THEN {move_ctor(Cur, b, a)} ELSE {})
        \cup (IF CanMoveAssign(b, a) THEN {move_assign(Cur, b, a)} ELSE {})
\* the step is the named operation on these operands
Moves(b, a) == MoveConstruct(b, a) \/ MoveAssign(b, a)
\* box bx would delete allocation p when it is released
Owns(bx, p) ==
    /\ bx.live /\ bx.vtable # NULL /\ vtable_for(bx.vtable) = "allocating"
    /\ bx.storage.k = "ptr" /\ bx.storage.p = p
Owners(p) == {b \in Boxes : Owns(box[b], p)}
HeapBound(bx) == bx.vtable # NULL /\ vtable_for(bx.vtable) = "allocating"
MovedFromHeap(bx) == bx.live /\ HeapBound(bx) /\ bx.storage = PtrS(nullptr)
\* the type qualifies for inline storage: at most one pointer, nothrow move
Fits(t) == SizeOf(t) <= BufferSize /\ NothrowMove(t)
InlineOrEmpty(bx) == bx.vtable = NULL \/ Fits(bx.vtable)
\* the operation with result m neither allocated nor freed
HeapQuiet(m) ==
    m.heap = heap /\ \A i \in 1..Len(m.ev) : m.ev[i] \notin {"new", "delete"}
AllDead == \A b \in Boxes : ~box[b].live
\* how often event e occurs in the trace ev, and where it occurs first
Count(ev, e) == Cardinality({i \in 1..Len(ev) : ev[i] = e})
First(ev, e) == CHOOSE i \in 1..Len(ev) : ev[i] = e /\ \A j \in 1..(i - 1) : ev[j] # e
Before(ev, e1, e2) == Count(ev, e2) > 0 => (Count(ev, e1) > 0 /\ First(ev, e1) < First(ev, e2))
\* no box of machine m owns allocation p
Unowned(m, p) == \A c \in AllBoxes : ~Owns(m.box[c], p)
\* the argument of a constructor is a null pointer / really holds a callable
NullPointerArg(f) == f.t \in {"fn_ptr", "pmf"} /\ f.val.v = nullptr
EmptyNestedArg(f) == f.t = "nested" /\ f.val.inner.vtable = NULL
NotNullArg(f) == ~NullPointerArg(f) /\ ~EmptyNestedArg(f)

\* C1: every live heap allocation is possessed by at most one box, and a move
\* from A into another box B hands A's allocation to B and leaves A without it.
UniqueOwner == \A p \in Addrs : heap[p].st = "live" => Cardinality(Owners(p)) <= 1
MoveTransfers ==
    \A a \in Boxes, b \in Boxes, p \in Addrs :
        (a # b /\ Owns(box[a], p)) =>
            \A m \in MoveOutcomes(b, a) : Owns(m.box[b], p) /\ ~Owns(m.box[a], p)
C1_UniqueOwnership == UniqueOwner /\ MoveTransfers
C1_Witness ==
    \E a \in Boxes, b \in Boxes, p \in Addrs :
        /\ a # b /\ Owns(box[a], p) /\ heap[p].st = "live"
        /\ operator_bool(box[b]) /\ CanMoveAssign(b, a)
        /\ LET m == move_assign(Cur, b, a)
           IN /\ Owns(m.box[b], p) /\ MovedFromHeap(m.box[a])
              /\ m.heap[p].st = "live" /\ m.box[b].vtable = box[a].vtable

\* C2: no allocation is deleted twice, no box points at a deleted allocation,
\* and once every box is destroyed no allocation is still live.
C2_ExactlyOnceRelease ==
    /\ "double_delete" \notin faults
    /\ "use_after_free" \notin faults
    /\ \A b \in Boxes, p \in Addrs : Owns(box[b], p) => heap[p].st = "live"
    /\ AllDead => \A p \in Addrs : heap[p].st # "live"
C2_Witness ==
    \E b \in Boxes, p \in Addrs :
        /\ Owns(box[b], p) /\ \A c \in Boxes \ {b} : ~box[c].live
        /\ \A q \in Addrs \ {p} : heap[q].st = "deleted"
        /\ LET m == dtor(Cur, b)
           IN /\ \A c \in Boxes : ~m.box[c].live
              /\ \A q \in Addrs : m.heap[q].st = "deleted"
              /\ Count(m.ev, "delete") = 1

\* C3: (box == nullptr) is true exactly when the box is empty, that is when
\* bool(box) is false.
C3_EqNullIffEmpty ==
    \A b \in Boxes : box[b].live =>
        (operator_eq_nullptr(box[b]) <=> ~operator_bool(box[b]))

\* C4: after B is move-constructed or move-assigned from a callable box A,
\* invoking B returns what invoking A would have returned just before the move.
C4_MovePreservesCallable ==
    \A a \in Boxes, b \in Boxes :
        (a # b /\ CanCall(box[a], heap)) =>
            \A m \in MoveOutcomes(b, a) :
                CallResult(m.box[b], m.heap) = CallResult(box[a], heap)
C4_Witness ==
    \E a \in Boxes, b \in Boxes :
        /\ a # b /\ box[a].vtable = "throwing" /\ CallResult(box[a], heap) = 2
        /\ CanMoveConstruct(b, a)
        /\ LET m == move_ctor(Cur, b, a)
           IN /\ m.box[b].vtable = "throwing" /\ MovedFromHeap(m.box[a])
              /\ CallResult(m.box[b], m.heap) = 2

\* C5 as stated: after a non-empty heap-strategy box A was the source of a
\* move into B, bool(A) is false.
C5_SourceEmptyAfterMove ==
    [][\A a \in Boxes, b \in Boxes :
        (a # b /\ HeapBound(box[a]) /\ Moves(b, a)) => ~operator_bool(box'[a])]_vars
\* C5 as amended: after such a move into another box, A keeps its descriptor
\* (bool(A) stays true) while its stored pointer is null and A owns nothing.
C5_SourceInertAfterMove ==
    \A a \in Boxes, b \in Boxes :
        (a # b /\ HeapBound(box[a])) =>
            \A m \in MoveOutcomes(b, a) :
                /\ operator_bool(m.box[a])
                /\ m.box[a].vtable = box[a].vtable
                /\ m.box[a].storage = PtrS(nullptr)
                /\ \A p \in Addrs : ~Owns(m.box[a], p)
C5_Witness ==
    \E a \in Boxes, b \in Boxes, p \in Addrs :
        /\ a # b /\ Owns(box[a], p) /\ CanMoveConstruct(b, a)
        /\ LET m == move_ctor(Cur, b, a)
           IN /\ operator_bool(m.box[a]) /\ MovedFromHeap(m.box[a])
              /\ Owns(m.box[b], p)

\* C6: constructing a box from a null function pointer or a null pointer to
\* member function yields an empty box; no payload is constructed, the storage
\* is untouched and nothing is allocated.
C6_NullPointerPropagation ==
    \A b \in Boxes, f \in Args :
        (NullPointerArg(f) /\ CanConstruct(b, f)) =>
            LET m == ctor_from(Cur, b, f)
            IN /\ m.box[b].live /\ ~operator_bool(m.box[b])
               /\ m.box[b].storage = Raw
               /\ m.ev = <<>>
               /\ m.heap = heap
C6_Witness ==
    \E b \in Boxes, c \in Boxes, f \in Args :
        /\ f.t = "pmf" /\ NullPointerArg(f) /\ CanConstruct(b, f)
        /\ operator_bool(box[c])
        /\ LET m == ctor_from(Cur, b, f)
           IN m.box[b] = EmptyBox /\ m.heap = heap /\ m.ev = <<>>

\* C7: constructing a box from an empty move_only_function of another
\* signature variant yields an empty box.
C7_NestedEmptyPropagation ==
    [][\A b \in Boxes, f \in Args :
        (EmptyNestedArg(f) /\ Construct(b, f)) => ~operator_bool(box'[b])]_vars

\* C8: constructing a box from a callable value that is not null (a non-empty
\* nested box included) yields a non-empty box bound to that type's descriptor
\* whose invocation returns the wrapped callable's result.
C8_BindsNonNullCallable ==
    [][\A b \in Boxes, f \in Args :
        (NotNullArg(f) /\ Construct(b, f)) =>
            /\ operator_bool(box'[b])
            /\ box'[b].vtable = f.t
            /\ CallResult(box'[b], heap') = Invoke(f.t, f.val).ret]_vars

\* C9: a box made by default construction or from the null sentinel has no
\* descriptor and no payload, bool(box) is false, nothing is allocated, and
\* destroying an empty box invokes no destroy operation.
C9_EmptyConstruction ==
    \A b \in Boxes :
        /\ IsNew(b) =>
            LET m == default_ctor(Cur, b)
            IN /\ m.box[b].live /\ m.box[b].vtable = NULL /\ m.box[b].storage = Raw
               /\ ~operator_bool(m.box[b])
               /\ m.ev = <<>> /\ m.heap = heap
        /\ (box[b].live /\ ~operator_bool(box[b])) =>
            LET m == dtor(Cur, b)
            IN m.ev = <<>> /\ m.heap = heap /\ m.faults = faults
C9_Witness ==
    \E b \in Boxes, c \in Boxes :
        /\ IsNew(b) /\ default_ctor(Cur, b).box[b] = EmptyBox
        /\ box[c] = EmptyBox
        /\ LET m == dtor(Cur, c) IN m.ev = <<>> /\ ~m.box[c].live
        /\ \E p \in Addrs : heap[p].st = "deleted"

\* C10: for a callable type of at most one pointer with a non-throwing move,
\* constructing a box from it, moving, swapping and destroying boxes that hold
\* it allocates nothing and frees nothing.
C10_InlineAllocatesNothing ==
    \A b \in Boxes :
        /\ \A f \in Args :
            /\ (Fits(f.t) /\ CanConstruct(b, f)) => HeapQuiet(ctor_from(Cur, b, f))
            /\ (Fits(f.t) /\ CanInPlaceConstruct(b, f))
                => HeapQuiet(in_place_ctor(Cur, b, f))
        /\ \A a \in Boxes :
            (/\ InlineOrEmpty(box[a]) /\ InlineOrEmpty(box[b])
             /\ operator_bool(box[a]) \/ operator_bool(box[b])) =>
                /\ \A m \in MoveOutcomes(b, a) : HeapQuiet(m)
                /\ CanSwap(b, a) => HeapQuiet(swap(Cur, b, a))
        /\ (box[b].live /\ operator_bool(box[b]) /\ Fits(box[b].vtable))
            => HeapQuiet(dtor(Cur, b))
C10_Witness ==
    \E a \in Boxes, b \in Boxes :
        /\ box[a].vtable = "lambda" /\ box[b].vtable = "fn_ptr"
        /\ box[a].storage.k = "obj" /\ box[b].storage.k = "obj"
        /\ CallResult(box[a], heap) = 2
        /\ CanSwap(a, b)
        /\ LET m == swap(Cur, a, b)
           IN /\ m.box[a].vtable = "fn_ptr" /\ m.box[b].vtable = "lambda"
              /\ m.heap = heap /\ Count(m.ev, "new") = 0 /\ Count(m.ev, "delete") = 0

\* C11: constructing a box from a callable of a type larger than one pointer
\* or with a move constructor that may throw makes exactly one heap allocation,
\* which the new box owns; no allocation is deleted twice, and once every box
\* is destroyed every allocation has been deleted.
C11_HeapAllocatesOnce ==
    [][/\ \A b \in Boxes, f \in Args :
            (Construct(b, f) /\ ~Fits(f.t) /\ NotNullArg(f)) =>
                \E p \in Addrs :
                    /\ heap[p].st = "free" /\ heap'[p].st = "live"
                    /\ Owns(box'[b], p)
                    /\ \A q \in Addrs \ {p} : heap'[q] = heap[q]
       /\ "double_delete" \notin faults'
       /\ (\A b \in Boxes : ~box'[b].live) => \A p \in Addrs : heap'[p].st # "live"]_vars

\* C12: B = move(A) on a non-empty B destroys B's payload exactly once, before
\* A's payload is relocated into B; afterwards no box owns B's previous
\* allocation, and that allocation has been deleted.
C12_MoveAssignReleasesFirst ==
    \A a \in Boxes, b \in Boxes :
        (CanMoveAssign(b, a) /\ operator_bool(box[b])) =>
            LET m == move_assign(Cur, b, a)
            IN /\ Count(m.ev, "destroy") = 1
               /\ Before(m.ev, "destroy", "relocate")
               /\ (a # b /\ operator_bool(box[a])) => Count(m.ev, "relocate") = 1
               /\ \A p \in Addrs :
                    Owns(box[b], p) =>
                        /\ m.heap[p].st = "deleted" /\ Unowned(m, p)
                        /\ Count(m.ev, "delete") = 1
               /\ m.faults = faults
C12_Witness ==
    \E a \in Boxes, b \in Boxes, p \in Addrs, q \in Addrs :
        /\ a # b /\ Owns(box[b], p) /\ Owns(box[a], q) /\ CanMoveAssign(b, a)
        /\ LET m == move_assign(Cur, b, a)
           IN /\ m.ev = <<"destroy", "dtor", "delete", "relocate">>
              /\ m.heap[p].st = "deleted" /\ Unowned(m, p)
              /\ Owns(m.box[b], q) /\ MovedFromHeap(m.box[a])

\* C13: assigning a callable to a box (empty, bound or moved-from) first
\* destroys the payload the box held, exactly once, and then constructs the new
\* one; the box is then non-empty and invoking it returns the new callable's
\* result; the old allocation is deleted, owned by no box, and destroying the
\* box later destroys only the new payload.
C13_RebindFromCallable ==
    \A b \in Boxes, f \in Args :
        (CanAssign(b, f) /\ NotNullArg(f)) =>
            LET m == assign_from(Cur, b, f)
                m2 == dtor(m, b)
            IN /\ Count(m.ev, "destroy") = (IF operator_bool(box[b]) THEN 1 ELSE 0)
               /\ Count(m.ev, "ctor") = 1
               /\ operator_bool(box[b]) => Before(m.ev, "destroy", "ctor")
               /\ operator_bool(m.box[b]) /\ m.box[b].vtable = f.t
               /\ CanCall(m.box[b], m.heap)
               /\ CallResult(m.box[b], m.heap) = Invoke(f.t, f.val).ret
               /\ \A p \in Addrs :
                    Owns(box[b], p) =>
                        /\ m.heap[p].st = "deleted" /\ Unowned(m, p)
                        /\ m2.heap[p].st = "deleted"
               /\ m.faults = faults /\ m2.faults = faults
               /\ Count(m2.ev, "destroy") = Count(m.ev, "destroy") + 1
C13_Witness ==
    \E b \in Boxes, f \in Args, p \in Addrs :
        /\ f.t = "pmf" /\ NotNullArg(f) /\ Owns(box[b], p) /\ CanAssign(b, f)
        /\ LET m == assign_from(Cur, b, f)
           IN /\ m.ev = <<"destroy", "dtor", "delete", "new", "ctor">>
              /\ m.heap[p].st = "deleted" /\ m.box[b].vtable = "pmf"
              /\ CallResult(m.box[b], m.heap) = 2

\* C14: assigning nullptr to a box (empty, bound or moved-from) destroys a held
\* payload exactly once, deletes its allocation if it has one, and leaves the
\* box empty; assigning nullptr again changes nothing and destroys and deletes
\* nothing more.
C14_NullAssignIdempotent ==
    \A b \in Boxes :
        box[b].live =>
            LET m == null_assign(Cur, b)
                m2 == null_assign(m, b)
            IN /\ Count(m.ev, "destroy") = (IF operator_bool(box[b]) THEN 1 ELSE 0)
               /\ m.box[b] = EmptyBox /\ ~operator_bool(m.box[b])
               /\ \A p \in Addrs :
                    Owns(box[b], p) =>
                        /\ m.heap[p].st = "deleted" /\ Count(m.ev, "delete") = 1
               /\ (\A p \in Addrs : ~Owns(box[b], p)) => m.heap = heap
               /\ \A c \in Boxes \ {b} : m.box[c] = box[c]
               /\ m.faults = faults
               /\ m2 = m
C14_Witness ==
    \E b \in Boxes, p \in Addrs :
        /\ Owns(box[b], p) /\ heap[p].st = "live"
        /\ LET m == null_assign(Cur, b)
           IN /\ m.box[b] = EmptyBox /\ m.heap[p].st = "deleted"
              /\ m.ev = <<"destroy", "dtor", "delete">>
              /\ null_assign(m, b) = m

\* C15: for two distinct boxes A and B, each empty, inline-bound or heap-bound,
\* after swap(A, B) A is empty iff B was and B is empty iff A was, invoking A
\* returns what invoking B would have returned and vice versa; the swap
\* allocates nothing and deletes nothing, and the temporary of the three moves
\* owns no allocation when it is destroyed.
C15_SwapExchanges ==
    \A a \in Boxes, b \in Boxes :
        (a # b /\ CanSwap(a, b)) =>
            LET m == swap(Cur, a, b)
                m3 == swap_moves(Cur, a, b)
            IN /\ operator_bool(m.box[a]) <=> operator_bool(box[b])
               /\ operator_bool(m.box[b]) <=> operator_bool(box[a])
               /\ CanCall(m.box[a], m.heap) <=> CanCall(box[b], heap)
               /\ CanCall(m.box[b], m.heap) <=> CanCall(box[a], heap)
               /\ CallResult(m.box[a], m.heap) = CallResult(box[b], heap)
               /\ CallResult(m.box[b], m.heap) = CallResult(box[a], heap)
               /\ m.box[a] = box[b] /\ m.box[b] = box[a]
               /\ HeapQuiet(m)
               /\ \A p \in Addrs : ~Owns(m3.box[TMP], p)
               /\ m.box[TMP] = DeadBox
               /\ m.faults = faults
C15_Witness ==
    \E a \in Boxes, b \in Boxes, p \in Addrs :
        /\ a # b /\ box[a].vtable = "lambda" /\ CallResult(box[a], heap) = 2
        /\ box[b].vtable = "pmf" /\ Owns(box[b], p) /\ CallResult(box[b], heap) = 2
        /\ CanSwap(a, b)
        /\ LET m == swap(Cur, a, b)
           IN /\ m.box[a].vtable = "pmf" /\ Owns(m.box[a], p)
              /\ m.box[b].vtable = "lambda" /\ m.box[b].storage.k = "obj"
              /\ CallResult(m.box[b], m.heap) = 2

\* C16: swap(A, B) followed by swap(A, B) restores both boxes: same emptiness,
\* same callable in the same state (same result when invoked), same heap.
C16_SwapInvolution ==
    \A a \in Boxes, b \in Boxes :
        (a # b /\ CanSwap(a, b)) =>
            LET m1 == swap(Cur, a, b)
                m2 == swap(m1, a, b)
            IN /\ \A c \in {a, b} :
                    /\ operator_bool(m2.box[c]) <=> operator_bool(box[c])
                    /\ m2.box[c].vtable = box[c].vtable
                    /\ CallResult(m2.box[c], m2.heap) = CallResult(box[c], heap)
               /\ m2.box = box /\ m2.heap = heap /\ m2.faults = faults
               /\ (operator_bool(box[a]) /\ box[a] # box[b]) => m1.box # box
C16_Witness ==
    \E a \in Boxes, b \in Boxes, p \in Addrs :
        /\ a # b /\ box[a].vtable = "throwing" /\ Owns(box[a], p)
        /\ CallResult(box[a], heap) = 2 /\ box[b] = EmptyBox
        /\ CanSwap(a, b)
        /\ LET m1 == swap(Cur, a, b)
               m2 == swap(m1, a, b)
           IN /\ m1.box[a] = EmptyBox /\ Owns(m1.box[b], p)
              /\ m2.box = box /\ m2.heap = heap

\* C17: a box constructed from the counting closure, which starts at 0,
\* returns 1, 2, 3 on three successive invocations; in general an invocation of
\* a box holding a counter returns one more than the stored count, stores that
\* count in the one instance the box holds, and the next invocation sees it.
C17_StatefulInvocation ==
    \A b \in Boxes :
        /\ \A f \in Args :
            (f.t \in Counters /\ CanConstruct(b, f)) =>
                LET r1 == call_operator(ctor_from(Cur, b, f), b)
                    r2 == call_operator(r1.m, b)
                    r3 == call_operator(r2.m, b)
                IN <<r1.ret, r2.ret, r3.ret>> = <<1, 2, 3>> /\ r3.m.faults = faults
        /\ (box[b].live /\ CanCall(box[b], heap) /\ box[b].vtable \in Counters) =>
                LET n == Payload(box[b], heap).v
                    r == call_operator(Cur, b)
                IN /\ r.ret = n + 1
                   /\ Payload(r.m.box[b], r.m.heap).v = n + 1
                   /\ r.m.box[b].vtable = box[b].vtable
                   /\ call_operator(r.m, b).ret = n + 2
                   /\ Count(r.m.ev, "ctor") = 0 /\ Count(r.m.ev, "new") = 0
                   /\ \A c \in Boxes \ {b} : r.m.box[c] = box[c]
C17_Witness ==
    \E b \in Boxes :
        /\ box[b].vtable = "lambda" /\ box[b].storage = ObjS([NoVal EXCEPT !.v = 3])
        /\ \A c \in Boxes \ {b} : ~box[c].live
        /\ \A p \in Addrs : heap[p].st = "free"

\* C18: a box constructed from a non-null pointer to member function is
\* non-empty, and invoking it with a receiver returns the result of that member
\* function on the receiver: 2 for &foo::b.
C18_PointerToMemberFunction ==
    \A b \in Boxes, f \in Args :
        (f.t = "pmf" /\ ~NullPointerArg(f) /\ CanConstruct(b, f)) =>
            LET m == ctor_from(Cur, b, f)
                r == call_operator(m, b)
            IN /\ operator_bool(m.box[b]) /\ m.box[b].vtable = "pmf"
               /\ CanCall(m.box[b], m.heap)
               /\ r.ret = 2
               /\ r.m.box[b] = m.box[b] /\ CanCall(r.m.box[b], r.m.heap)
               /\ r.m.faults = faults
C18_Witness ==
    \E b \in Boxes, f \in Args :
        /\ f.t = "pmf" /\ ~NullPointerArg(f) /\ CanConstruct(b, f)
        /\ \E c \in Boxes : operator_bool(box[c])
        /\ LET m == ctor_from(Cur, b, f)
               r == call_operator(m, b)
           IN /\ \E p \in Addrs : Owns(m.box[b], p) /\ heap[p].st = "free"
              /\ r.m.ev = <<"new", "ctor", "call">> /\ r.ret = 2

\* C19: when the stored callable throws during an invocation the exception
\* leaves the call operator; after an invocation, whether it returned or
\* threw, the box is non-empty and bound to the same payload; and a box of a
\* noexcept variant only ever holds a callable that cannot throw.
C19_FailurePropagation ==
    [][/\ \A b \in Boxes :
            (CallThrows(b) /\ ~Noexcept(sig)) =>
                faults' = faults /\ box' = box /\ heap' = heap
       /\ \A b \in Boxes :
            Call(b) =>
                /\ operator_bool(box'[b]) /\ box'[b].vtable = box[b].vtable
                /\ box'[b].storage.k = box[b].storage.k
                /\ box'[b].storage.p = box[b].storage.p
                /\ CanCall(box'[b], heap')
       /\ \A b \in Boxes :
            (Noexcept(sig) /\ box'[b].live /\ operator_bool(box'[b])) =>
                NothrowInvocable(box'[b].vtable)]_vars
\* C21: when threads move from the same heap-bound box without
\* synchronization, the relocation is two steps (copy the pointer, then null
\* the source), so a thread that has copied and not yet nulled leaves the
\* pointer in the source for the others to copy; and whenever two
\* destinations hold the same allocation, destroying both deletes it twice.
C21_ConcurrentMovesRace ==
    /\ \A t \in Boxes, p \in Addrs :
          (pc[t] = "copied" /\ Owns(box[t], p)) =>
              \/ Owns(box[SHARED], p)
              \/ \E u \in Boxes \ {t} : pc[u] = "done" /\ (box[u].live => Owns(box[u], p))
    /\ \A t \in Boxes, u \in Boxes, p \in Addrs :
          (t # u /\ Owns(box[t], p) /\ Owns(box[u], p)) =>
              LET m1 == dtor(Cur, t)
                  m2 == dtor(m1, u)
              IN /\ m1.heap[p].st = "deleted"
                 /\ heap[p].st = "live" => (Count(m1.ev, "delete") = 1 /\ m1.faults = faults)
                 /\ heap[p].st # "live" => "double_delete" \in m1.faults
                 /\ "double_delete" \in m2.faults
C21_Witness ==
    \E t \in Boxes, u \in Boxes, p \in Addrs :
        /\ t # u /\ pc[t] = "done" /\ pc[u] = "done"
        /\ Owns(box[t], p) /\ Owns(box[u], p) /\ heap[p].st = "live"
        /\ MovedFromHeap(box[SHARED])
        /\ "double_delete" \in dtor(dtor(Cur, t), u).faults

\* the operations one thread performs on a box of its own
BoxOps ==
    {[k |-> "assign", f |-> f] : f \in BystanderArgs}
        \cup {[k |-> "null_assign"], [k |-> "call"], [k |-> "destroy"]}
CanApply(m, o, a) ==
    /\ m.box[a].live
    /\ o.k = "assign" => (Allocates(o.f) => CanAlloc(m.heap))
    /\ o.k = "call" => CanCall(m.box[a], m.heap)
Apply(m, o, a) ==
    CASE o.k = "assign" -> assign_from(m, a, o.f)
      [] o.k = "null_assign" -> null_assign(m, a)
      [] o.k = "call" -> call_operator(m, a).m
      [] OTHER -> dtor(m, a)
\* machine m left every box other than a and b as it is in the current state:
\* descriptor and storage, the heap payload, the result of an invocation
Untouched(m, a, b) ==
    \A c \in (Boxes \cup {BYSTANDER}) \ {a, b} :
        /\ m.box[c] = box[c]
        /\ HeapBound(box[c]) => \A p \in Addrs : Owns(box[c], p) => m.heap[p] = heap[p]
        /\ CallResult(m.box[c], m.heap) = CallResult(box[c], heap)
\* what a program can observe of box c: descriptor, payload, invocation result
View(m, c) ==
    [live |-> m.box[c].live, vtable |-> m.box[c].vtable, k |-> m.box[c].storage.k,
     null |-> m.box[c].storage.p = nullptr,
     val |-> IF CanCall(m.box[c], m.heap) THEN Payload(m.box[c], m.heap) ELSE m.box[c].storage.val,
     res |-> CallResult(m.box[c], m.heap)]
\* C22: an operation on boxes a and b leaves the descriptor, the storage, the
\* heap payload and the invocation result of every other box c as they were;
\* and two operations on two different boxes leave both boxes in the same
\* observable state in either order.
C22_Isolation ==
    /\ \A a \in Boxes :
          /\ IsNew(a) => Untouched(default_ctor(Cur, a), a, a)
          /\ \A f \in Args :
                /\ CanConstruct(a, f) => Untouched(ctor_from(Cur, a, f), a, a)
                /\ CanInPlaceConstruct(a, f) => Untouched(in_place_ctor(Cur, a, f), a, a)
                /\ CanAssign(a, f) => Untouched(assign_from(Cur, a, f), a, a)
          /\ box[a].live =>
                /\ Untouched(null_assign(Cur, a), a, a)
                /\ Untouched(dtor(Cur, a), a, a)
                /\ CanCall(box[a], heap) => Untouched(call_operator(Cur, a).m, a, a)
          /\ \A b \in Boxes :
                /\ CanMoveConstruct(a, b) => Untouched(move_ctor(Cur, a, b), a, b)
                /\ CanMoveAssign(a, b) => Untouched(move_assign(Cur, a, b), a, b)
                /\ CanSwap(a, b) => Untouched(swap(Cur, a, b), a, b)
    /\ \A a \in Boxes, b \in Boxes :
          a < b =>
              \A o1 \in BoxOps :
                  CanApply(Cur, o1, a) =>
                      LET m1 == Apply(Cur, o1, a)
                      IN \A o2 \in BoxOps :
                             (CanApply(Cur, o2, b) /\ CanApply(m1, o2, b)) =>
                                 LET m2 == Apply(Cur, o2, b)
                                     m12 == Apply(m1, o2, b)
                                     m21 == Apply(m2, o1, a)
                                 IN CanApply(m2, o1, a) =>
                                        /\ View(m12, a) = View(m21, a)
                                        /\ View(m12, b) = View(m21, b)
                                        /\ m12.faults = m21.faults
C22_Witness ==
    \E a \in Boxes, b \in Boxes, p \in Addrs, q \in Addrs :
        /\ a # b /\ Owns(box[a], p) /\ Owns(box[BYSTANDER], q) /\ heap[q].st = "live"
        /\ operator_bool(box[b]) /\ CanSwap(a, b)
        /\ LET m == swap(Cur, a, b)
           IN /\ Owns(m.box[b], p) /\ m.box[a].vtable = box[b].vtable
              /\ m.box[BYSTANDER] = box[BYSTANDER] /\ m.heap[q] = heap[q]
              /\ CallResult(m.box[BYSTANDER], m.heap) = 2

\* C23: assigning a null function pointer (or null pointer to member) to a box
\* through operator=(F &&) leaves the box empty, as constructing from it does.
C23_NullPropagationOnAssignment ==
    [][\A b \in Boxes, f \in Args :
          (NullPointerArg(f) /\ Assign(b, f)) => ~operator_bool(box'[b])]_vars

\* C24: in every cv- or ref-qualified variant, invoking a box bound to a
\* callable with one call operator per access path runs the overload of an
\* access path that the variant's invocability predicate tested: the rvalue
\* overload in the && variant, a const overload in the const variants.
C24_RvalueQualifiedDispatch ==
    \A b \in Boxes :
        (box[b].live /\ CanCall(box[b], heap) /\ box[b].vtable \in OverloadTypes) =>
            \E path \in TestedPaths(sig) :
                QualifiedCallResult(sig, box[b], heap) = OverloadResult(path)

\* C25: moving a heap-bound box (by move construction or move assignment to
\* another box) allocates nothing and constructs no callable; the payload is
\* untouched, the destination owns the very allocation the source owned, and
\* the pointer stored in the source is null.
C25_HeapRelocationTransfersPointer ==
    \A a \in Boxes, b \in Boxes, p \in Addrs :
        (a # b /\ Owns(box[a], p)) =>
            \A m \in MoveOutcomes(b, a) :
                /\ Count(m.ev, "new") = 0 /\ Count(m.ev, "ctor") = 0
                /\ Count(m.ev, "relocate") = 1
                /\ m.heap[p] = heap[p]
                /\ \A q \in Addrs : heap[q].st = "free" => m.heap[q].st = "free"
                /\ Owns(m.box[b], p)
                /\ m.box[a].storage = PtrS(nullptr)
                /\ m.faults = faults
C25_Witness ==
    \E a \in Boxes, b \in Boxes, p \in Addrs :
        /\ a # b /\ Owns(box[a], p) /\ heap[p].st = "live" /\ CanMoveConstruct(b, a)
        /\ LET m == move_ctor(Cur, b, a)
           IN /\ m.ev = <<"relocate">>
              /\ m.heap = heap
              /\ Owns(m.box[b], p) /\ m.box[a].storage = PtrS(nullptr)

\* machine m deleted nothing: no delete ran, every allocation is as it was
\* (in particular those that other boxes own), no fault was detected
DeletedNothing(m) ==
    /\ Count(m.ev, "delete") = 0 /\ Count(m.ev, "dtor") = 0
    /\ \A p \in Addrs : heap[p].st = "live" => m.heap[p] = heap[p]
    /\ m.faults = faults
\* C26: destroying, null-assigning, rebinding or move-assigning onto a
\* heap-bound box whose payload was moved away (its stored pointer is null)
\* deletes nothing and leaves the allocation of the move's destination alone.
C26_ReleasingMovedFromHeapBox ==
    \A a \in Boxes :
        MovedFromHeap(box[a]) =>
            /\ DeletedNothing(dtor(Cur, a)) /\ dtor(Cur, a).heap = heap
            /\ DeletedNothing(null_assign(Cur, a)) /\ null_assign(Cur, a).heap = heap
            /\ \A f \in Args : CanAssign(a, f) => DeletedNothing(assign_from(Cur, a, f))
            /\ \A b \in Boxes :
                  CanMoveAssign(a, b) =>
                      /\ DeletedNothing(move_assign(Cur, a, b))
                      /\ move_assign(Cur, a, b).heap = heap
C26_Witness ==
    \E a \in Boxes, b \in Boxes, p \in Addrs :
        /\ a # b /\ MovedFromHeap(box[a])
        /\ Owns(box[b], p) /\ heap[p].st = "live" /\ box[b].vtable = box[a].vtable
        /\ LET m == dtor(Cur, a)
           IN /\ m.ev = <<"destroy">>
              /\ ~m.box[a].live /\ m.heap = heap /\ Owns(m.box[b], p)

\* the callable instances that exist in machine m: inline or on the heap
Instances(m) ==
    Cardinality({c \in AllBoxes : m.box[c].storage.k = "obj"})
        + Cardinality({p \in Addrs : m.heap[p].st = "live"})
\* the operation with result m constructed and destroyed what its events say:
\* every constructor call added an instance, every destructor call removed an
\* existing one, and no destruction of a missing instance was detected
Balanced(m) ==
    /\ Count(m.ev, "ctor") - Count(m.ev, "dtor") = Instances(m) - Instances(Cur)
    /\ m.faults = faults
InlineBound(bx) ==
    bx.live /\ bx.vtable # NULL /\ vtable_for(bx.vtable) = "short" /\ bx.storage.k = "obj"
\* the box holds a callable instance that its release will destroy
HoldsInstance(bx) == InlineBound(bx) \/ \E p \in Addrs : Owns(bx, p)
\* C27: moving an inline-bound box to another box constructs one instance in
\* the destination and leaves the source's instance in place; that instance
\* is destroyed once when the source is destroyed, reset or rebound; every
\* operation changes the number of instances by its constructor calls minus
\* its destructor calls; and once all boxes are destroyed no instance is left
\* and no instance was destroyed twice.
C27_InlineRelocationBalance ==
    /\ \A a \in Boxes, b \in Boxes :
          (a # b /\ InlineBound(box[a])) =>
              \A m \in MoveOutcomes(b, a) :
                  /\ Count(m.ev, "relocate") = 1 /\ Count(m.ev, "ctor") = 1
                  /\ Count(m.ev, "dtor") = (IF HoldsInstance(box[b]) THEN 1 ELSE 0)
                  /\ InlineBound(m.box[a]) /\ m.box[a].storage = box[a].storage
                  /\ InlineBound(m.box[b])
                  /\ Count(dtor(m, a).ev, "dtor") = Count(m.ev, "dtor") + 1
                  /\ Count(null_assign(m, a).ev, "dtor") = Count(m.ev, "dtor") + 1
                  /\ Count(assign_from(m, a, [t |-> "lambda", val |-> NoVal]).ev, "dtor")
                        = Count(m.ev, "dtor") + 1
    /\ \A a \in Boxes :
          /\ IsNew(a) => Balanced(default_ctor(Cur, a))
          /\ \A f \in Args :
                /\ CanConstruct(a, f) => Balanced(ctor_from(Cur, a, f))
                /\ CanInPlaceConstruct(a, f) => Balanced(in_place_ctor(Cur, a, f))
                /\ CanAssign(a, f) => Balanced(assign_from(Cur, a, f))
          /\ box[a].live =>
                /\ Balanced(null_assign(Cur, a))
                /\ Balanced(dtor(Cur, a))
                /\ CanCall(box[a], heap) => Balanced(call_operator(Cur, a).m)
          /\ \A b \in Boxes :
                /\ \A m \in MoveOutcomes(a, b) : Balanced(m)
                /\ CanSwap(a, b) => Balanced(swap(Cur, a, b))
    /\ AllDead => Instances(Cur) = 0
    /\ faults = {}
C27_Witness ==
    \E a \in Boxes, b \in Boxes :
        /\ a # b /\ InlineBound(box[a]) /\ CanMoveConstruct(b, a)
        /\ LET m == move_ctor(Cur, b, a)
               m2 == dtor(dtor(m, a), b)
           IN /\ m.ev = <<"relocate", "ctor">>
              /\ Instances(m) = 2
              /\ m2.ev = <<"relocate", "ctor", "destroy", "dtor", "destroy", "dtor">>
              /\ Instances(m2) = 0 /\ m2.faults = {}

\* C28: move-constructing from an empty box yields an empty box; move-assigning
\* an empty box onto a box b leaves b empty after the payload b held has been
\* released exactly once; neither invokes a relocate, and the empty source
\* stays empty.
C28_MovingFromEmptyBox ==
    \A a \in Boxes, b \in Boxes :
        (box[a].live /\ ~operator_bool(box[a])) =>
            /\ CanMoveConstruct(b, a) =>
                  LET m == move_ctor(Cur, b, a)
                  IN /\ m.box[b] = EmptyBox /\ m.box[a] = EmptyBox
                     /\ m.ev = <<>> /\ m.heap = heap /\ m.faults = faults
            /\ CanMoveAssign(b, a) =>
                  LET m == move_assign(Cur, b, a)
                  IN /\ m.box[b] = EmptyBox /\ m.box[a] = EmptyBox
                     /\ Count(m.ev, "relocate") = 0 /\ Count(m.ev, "ctor") = 0
                     /\ Count(m.ev, "destroy") = (IF operator_bool(box[b]) THEN 1 ELSE 0)
                     /\ Count(m.ev, "dtor") = (IF HoldsInstance(box[b]) THEN 1 ELSE 0)
                     /\ \A p \in Addrs :
                          Owns(box[b], p) =>
                              /\ m.heap[p].st = "deleted" /\ Count(m.ev, "delete") = 1
                     /\ m.faults = faults
C28_Witness ==
    \E a \in Boxes, b \in Boxes, p \in Addrs :
        /\ box[a] = EmptyBox /\ Owns(box[b], p) /\ heap[p].st = "live" /\ CanMoveAssign(b, a)
        /\ LET m == move_assign(Cur, b, a)
           IN /\ m.ev = <<"destroy", "dtor", "delete">>
              /\ m.box[b] = EmptyBox /\ m.heap[p].st = "deleted"

\* machine m at the start of the next operation
Then(m) == Mk(m.box, m.heap, m.faults, <<>>)
\* machine m2 left box b, its payload and its invocation result as in m
SameBox(m, m2, b) ==
    /\ m2.box[b] = m.box[b]
    /\ \A p \in Addrs : Owns(m.box[b], p) => m2.heap[p] = m.heap[p]
    /\ CallResult(m2.box[b], m2.heap) = CallResult(m.box[b], m.heap)
\* C29: after the payload of box a has been moved to box b, assigning a
\* callable to a, or move-assigning a box c that holds a callable into a, makes
\* a non-empty and invocable with the result of the new callable; the remains
\* of a's old payload are destroyed exactly once, before the new payload
\* arrives, nothing is deleted, and b (unless it is the box moved in) keeps
\* the payload it received.
C29_RebindingRevivesMovedFrom ==
    \A a \in Boxes, b \in Boxes :
        (a # b /\ HoldsInstance(box[a])) =>
            \A m0 \in MoveOutcomes(b, a) :
                LET m == Then(m0)
                IN /\ \A f \in Args :
                        (NotNullArg(f) /\ (Allocates(f) => CanAlloc(m.heap))) =>
                            LET m2 == assign_from(m, a, f)
                            IN /\ operator_bool(m2.box[a]) /\ CanCall(m2.box[a], m2.heap)
                               /\ CallResult(m2.box[a], m2.heap) = Invoke(f.t, f.val).ret
                               /\ Count(m2.ev, "destroy") = 1 /\ Count(m2.ev, "delete") = 0
                               /\ Count(m2.ev, "ctor") = 1 /\ Before(m2.ev, "destroy", "ctor")
                               /\ SameBox(m, m2, b)
                               /\ m2.faults = faults
                   /\ \A c \in Boxes \ {a} :
                        (m.box[c].live /\ CanCall(m.box[c], m.heap)) =>
                            LET m2 == move_assign(m, a, c)
                            IN /\ operator_bool(m2.box[a]) /\ CanCall(m2.box[a], m2.heap)
                               /\ CallResult(m2.box[a], m2.heap) = CallResult(m.box[c], m.heap)
                               /\ Count(m2.ev, "destroy") = 1 /\ Count(m2.ev, "delete") = 0
                               /\ Count(m2.ev, "relocate") = 1
                               /\ Before(m2.ev, "destroy", "relocate")
                               /\ c # b => SameBox(m, m2, b)
                               /\ m2.faults = faults
C29_Witness ==
    \E a \in Boxes, b \in Boxes, p \in Addrs, f \in Args :
        /\ a # b /\ Owns(box[a], p) /\ heap[p].st = "live" /\ CanMoveConstruct(b, a)
        /\ f.t = "lambda"
        /\ LET m == Then(move_ctor(Cur, b, a))
               m2 == assign_from(m, a, f)
           IN /\ MovedFromHeap(m.box[a]) /\ Owns(m.box[b], p)
              /\ m2.ev = <<"destroy", "ctor">>
              /\ CallResult(m2.box[a], m2.heap) = 1
              /\ Owns(m2.box[b], p) /\ m2.heap[p] = heap[p]

\* C30: constructing a box in place with target type T and arguments runs one
\* constructor of T and nothing else: no relocation, no destruction, and one
\* allocation exactly when T does not qualify for inline storage; the
\* instance made from the arguments sits in the box's storage or in the new
\* allocation that the box owns, and the box is bound to T's descriptor.
C30_InPlaceConstruction ==
    \A b \in Boxes, f \in Args :
        CanInPlaceConstruct(b, f) =>
            LET m == in_place_ctor(Cur, b, f)
            IN /\ m.ev = (IF Fits(f.t) THEN <<"ctor">> ELSE <<"new", "ctor">>)
               /\ Instances(m) = Instances(Cur) + 1
               /\ m.box[b].live /\ m.box[b].vtable = f.t
               /\ Payload(m.box[b], m.heap) = ConstructFrom(f.t, f.val)
               /\ Fits(f.t) => (InlineBound(m.box[b]) /\ m.heap = heap)
               /\ ~Fits(f.t) =>
                     \E p \in Addrs :
                         /\ heap[p].st = "free" /\ m.heap[p].st = "live" /\ m.heap[p].t = f.t
                         /\ Owns(m.box[b], p)
                         /\ \A q \in Addrs \ {p} : m.heap[q] = heap[q]
               /\ \A c \in AllBoxes \ {b} : m.box[c] = box[c]
               /\ m.faults = faults
C30_Witness ==
    \E a \in Boxes, b \in Boxes, f \in Args, p \in Addrs :
        /\ a # b /\ InlineBound(box[a]) /\ f.t = "pmf" /\ f.val.v = 1
        /\ heap[p].st = "free" /\ CanInPlaceConstruct(b, f)
        /\ LET m == in_place_ctor(Cur, b, f)
           IN /\ m.ev = <<"new", "ctor">>
              /\ Owns(m.box[b], p) /\ m.heap[p].st = "live"
              /\ CallResult(m.box[b], m.heap) = 2

\* C31: in every reachable state a box for which bool(box) is true can be
\* invoked as far as the box is concerned: when the call operator's assertion
\* holds (the descriptor is present) and the descriptor is the heap strategy's,
\* the stored pointer is not null and points at a live allocation.
C31_NonEmptyImpliesInvocable ==
    \A b \in Boxes :
        (box[b].live /\ operator_bool(box[b]) /\ HeapBound(box[b])) =>
            /\ allocating_get_pointer(Cur, b) # nullptr
            /\ heap[allocating_get_pointer(Cur, b)].st = "live"

\* C32: in every reachable state, those after a failed construction of a new
\* payload included, a box whose descriptor is present has a constructed
\* payload in its storage: the callable itself for the inline strategy, the
\* pointer for the heap strategy.
C32_DescriptorHasPayload ==
    \A b \in Boxes :
        (box[b].live /\ box[b].vtable # NULL) =>
            box[b].storage.k = (IF vtable_for(box[b].vtable) = "short" THEN "obj" ELSE "ptr")

\* C33: move-assigning a non-empty box to itself runs destroy once, which
\* destroys the payload the box holds and deletes its allocation once, and
\* leaves the box empty; nothing is relocated, no box is left with a pointer
\* to the deleted allocation, and destroying the box afterwards does nothing.
C33_SelfMoveAssignment ==
    \A a \in Boxes :
        (box[a].live /\ operator_bool(box[a])) =>
            LET m == move_assign(Cur, a, a)
            IN /\ m.box[a] = EmptyBox /\ ~operator_bool(m.box[a])
               /\ Count(m.ev, "destroy") = 1 /\ Count(m.ev, "relocate") = 0
               /\ Count(m.ev, "dtor") = (IF HoldsInstance(box[a]) THEN 1 ELSE 0)
               /\ \A p \in Addrs :
                    Owns(box[a], p) =>
                        /\ m.heap[p].st = "deleted" /\ Count(m.ev, "delete") = 1
                        /\ Unowned(m, p)
               /\ \A p \in Addrs : ~Owns(box[a], p) => m.heap[p] = heap[p]
               /\ m.faults = faults
               /\ dtor(Then(m), a).ev = <<>> /\ dtor(Then(m), a).faults = faults
C33_Witness ==
    \E a \in Boxes, p \in Addrs :
        /\ Owns(box[a], p) /\ heap[p].st = "live" /\ CanMoveAssign(a, a)
        /\ LET m == move_assign(Cur, a, a)
           IN /\ m.ev = <<"destroy", "dtor", "delete">>
              /\ m.box[a] = EmptyBox /\ m.heap[p].st = "deleted"

\* C34: swapping a box with itself leaves the box as it was: empty if it was
\* empty, else bound to the same descriptor with the same callable state (the
\* same allocation for a heap payload) and the same invocation result; the
\* heap is unchanged, nothing is allocated or deleted, the number of callable
\* instances is the same and the local tmp is gone.
C34_SelfSwap ==
    \A a \in Boxes :
        CanSwap(a, a) =>
            LET m == swap(Cur, a, a)
            IN /\ m.box[a] = box[a]
               /\ CallResult(m.box[a], m.heap) = CallResult(box[a], heap)
               /\ m.heap = heap
               /\ Count(m.ev, "new") = 0 /\ Count(m.ev, "delete") = 0
               /\ Instances(m) = Instances(Cur)
               /\ ~m.box[TMP].live
               /\ \A c \in Boxes : m.box[c] = box[c]
               /\ m.faults = faults
C34_Witness ==
    \E a \in Boxes, b \in Boxes, p \in Addrs :
        /\ InlineBound(box[a]) /\ box[a].vtable = "lambda" /\ CallResult(box[a], heap) = 3
        /\ Owns(box[b], p) /\ heap[p].st = "live"
        /\ LET m == swap(Cur, a, a)
               m2 == swap(Cur, b, b)
           IN /\ m.ev = <<"relocate", "ctor", "destroy", "dtor", "relocate", "ctor", "destroy", "dtor">>
              /\ CallResult(m.box[a], m.heap) = 3
              /\ m2.ev = <<"relocate", "destroy", "relocate", "destroy">>
              /\ Owns(m2.box[b], p) /\ m2.heap = heap

\* C35: in-place construction never yields an empty box: for every target
\* type and argument, a null function pointer, a null pointer to member and an
\* empty nested box included, the box is bound to the target type's
\* descriptor and holds the instance made from the argument.
C35_InPlaceNeverEmpty ==
    \A b \in Boxes, f \in Args :
        CanInPlaceConstruct(b, f) =>
            LET m == in_place_ctor(Cur, b, f)
            IN /\ operator_bool(m.box[b])
               /\ m.box[b].vtable = f.t
               /\ HoldsInstance(m.box[b])
               /\ Count(m.ev, "ctor") = 1
C35_Witness ==
    \E b \in Boxes, f \in Args :
        /\ f.t = "fn_ptr" /\ NullPointerArg(f)
        /\ CanInPlaceConstruct(b, f) /\ CanConstruct(b, f)
        /\ LET m == in_place_ctor(Cur, b, f)
           IN /\ operator_bool(m.box[b]) /\ m.box[b].storage = ObjS(f.val)
              /\ ~CanCall(m.box[b], m.heap)
              /\ ~operator_bool(ctor_from(Cur, b, f).box[b])

====
